---- MODULE Spec2Model ----
(***************************************************************************)
(* Model of the spread composer (createSpreadPage, drawCutMarks,           *)
(* drawMiddleMarks) and of the POST /handle-preview handler.               *)
(*                                                                         *)
(* Coordinates are integers (points).  A page primitive (addPage,          *)
(* drawPage, drawLine) either succeeds or throws; which call throws, and   *)
(* what it throws, is chosen by the environment.                           *)
(***************************************************************************)
EXTENDS Integers, Sequences, FiniteSets

VARIABLES
  args,       \* the options object the caller composes spreads with
  pageCount,  \* number of pages of the PDFDocument `doc`
  last,       \* the most recent createSpreadPage call: arguments and outcome
  snap,       \* an earlier completed call, kept to compare a later one with
  sheet,      \* the direct drawCutMarks / drawMiddleMarks call, once made
  req,        \* the body of the POST /handle-preview request, once received
  pc,         \* where the request's handler is: idle, an awaited step, done
  steps,      \* the awaited steps the handler has started, with their outcome
  responses   \* the responses sent for the request

pdfVars == <<args, pageCount, last, snap, sheet>>
httpVars == <<req, pc, steps, responses>>
vars == <<args, pageCount, last, snap, sheet, req, pc, steps, responses>>

----------------------------------------------------------------------------
(* Bounds and input sets *)

MaxPages == 2
MaxRepeatPages == 3
MaxBleed == 1

\* An optional (possibly undefined) number: <<>> or <<v>>.
Undefined == <<>>
Some(v) == <<v>>
OrDefault(o, d) == IF o = Undefined THEN d ELSE o[1]

\* A page reference that is absent (undefined): falsy in `if (leftPage)`.
Absent == "undefined"

Widths == {0, 1224}
Heights == {-4, 792}
MarginXs == {0, 36}
MarginYs == {36}
ImgWidths == {-2, 0, 576}
ImgHeights == {720}
Bleeds == (-1 .. MaxBleed) \cup {18}
ExtraGutters == {Undefined, Some(5)}
Offsets1 == {Undefined, Some(-1), Some(0), Some(4)}
Offsets2 == {Undefined, Some(30), Some(7)}
Errors == {"TypeError", "RangeError"}

Inputs ==
  [leftPage : {Absent, "embeddedA"}, rightPage : {Absent, "embeddedB"},
   width : Widths, height : Heights, marginX : MarginXs, marginY : MarginYs,
   imgWidth : ImgWidths, imgHeight : ImgHeights, bleed : Bleeds,
   extraGutter : ExtraGutters]

\* The inputs of the runs that compare two calls: the scenario's page and
\* margins, every bleed, image width and combination of sides.
RepeatInputs ==
  {a \in Inputs : /\ a.width = 1224 /\ a.height = 792 /\ a.marginX = 36
                  /\ a.imgWidth = 576 /\ a.extraGutter = Undefined}

\* The scenario of the specification's section 8 (extraGutter 0, the default).
Scenario ==
  [leftPage |-> "embeddedA", rightPage |-> "embeddedB", width |-> 1224,
   height |-> 792, marginX |-> 36, marginY |-> 36, imgWidth |-> 576,
   imgHeight |-> 720, bleed |-> 18, extraGutter |-> Undefined]

\* Some other options object, for a call made between two calls with `a`.
Other(a) ==
  [a EXCEPT !.leftPage = a.rightPage, !.rightPage = a.leftPage,
            !.width = a.height, !.height = a.width,
            !.bleed = a.bleed + 2, !.extraGutter = Some(7)]

MiddleOptions ==
  [imgWidth : ImgWidths, bleed : Bleeds, finalHeight : Heights,
   extraGutter : ExtraGutters, offset1 : Offsets1, offset2 : Offsets2]

----------------------------------------------------------------------------
(* The page primitives' calls *)

Black == <<0, 0, 0>>

\* A faulty variant: the page is requested with its sides swapped
AddPageSwapped(page, width, height) ==
  [op |-> "addPage", page |-> page, size |-> <<height, width>>]

\* doc.addPage([width, height])
AddPage(page, width, height) ==
  [op |-> "addPage", page |-> page, size |-> <<width, height>>]

\* page.drawPage(ref, {x, y, width, height})
DrawPage(page, ref, x, y, w, h) ==
  [op |-> "drawPage", page |-> page, ref |-> ref,
   x |-> x, y |-> y, width |-> w, height |-> h]

\* page.drawLine({start, end, thickness, color})
DrawLine(page, x1, y1, x2, y2, thickness, color) ==
  [op |-> "drawLine", page |-> page, start |-> <<x1, y1>>, end |-> <<x2, y2>>,
   thickness |-> thickness, color |-> color]

----------------------------------------------------------------------------
(* drawCutMarks.js *)

\* the local drawLine of drawCutMarks
CutLine(page, x1, y1, x2, y2) == DrawLine(page, x1, y1, x2, y2, 1, Black)

\* A faulty variant: the table "cleaned up" into the symmetric offsets
drawCutMarksSymmetric(page, width, height, bleed) ==
  << CutLine(page, bleed - 10, bleed + 7, bleed, bleed + 7),
     CutLine(page, bleed + 7, bleed - 10, bleed + 7, bleed),
     CutLine(page, width - bleed, bleed + 7, width - bleed + 10, bleed + 7),
     CutLine(page, width - bleed - 7, bleed - 10, width - bleed - 7, bleed),
     CutLine(page, bleed - 10, height - bleed - 7, bleed, height - bleed - 7),
     CutLine(page, bleed + 7, height - bleed - 10, bleed + 7, height - bleed),
     CutLine(page, width - bleed, height - bleed - 7,
                   width - bleed + 10, height - bleed - 7),
     CutLine(page, width - bleed - 7, height - bleed - 10,
                   width - bleed - 7, height - bleed) >>

drawCutMarks(page, width, height, bleed) ==
  << CutLine(page, bleed - 10, bleed + 7, bleed, bleed + 7),
     CutLine(page, bleed + 7, bleed - 10, bleed + 7, bleed),
     CutLine(page, width - bleed, bleed + 7, width - bleed + 10, bleed + 7),
     CutLine(page, width - bleed - 7, bleed - 10, width - bleed - 7, bleed),
     CutLine(page, bleed - 10, height - bleed - 16, bleed + 1, height - bleed - 16),
     CutLine(page, bleed + 7, height - bleed - 10, bleed + 7, height - bleed),
     CutLine(page, width - bleed - 2, height - bleed - 16,
                   width - bleed + 9, height - bleed - 16),
     CutLine(page, width - bleed - 8, height - bleed - 9,
                   width - bleed - 8, height - bleed + 1) >>

----------------------------------------------------------------------------
(* drawMiddleMarks.js *)

\* the local drawLine of drawMiddleMarks
MidLine(page, x, y1, y2) == DrawLine(page, x, y1, x, y2, 1, Black)

\* A faulty variant: the marks drawn at centerX2, the gutter-shifted center
drawMiddleMarksGutter(page, options) ==
  LET imgWidth == options.imgWidth
      bleed == options.bleed
      finalHeight == options.finalHeight
      extraGutter == OrDefault(options.extraGutter, 0)
      centerX2 == imgWidth + bleed + extraGutter
  IN << MidLine(page, centerX2, bleed - 10, bleed),
        MidLine(page, centerX2, finalHeight - bleed - 10, finalHeight - bleed) >>

drawMiddleMarks(page, options) ==
  LET imgWidth == options.imgWidth
      bleed == options.bleed
      finalHeight == options.finalHeight
      extraGutter == OrDefault(options.extraGutter, 0)
      offset1 == OrDefault(options.offset1, -1)
      offset2 == OrDefault(options.offset2, 30)
      centerX1 == imgWidth + bleed + offset1
      centerX2 == imgWidth + bleed + extraGutter
      centerX3 == imgWidth + bleed + offset2
  IN << MidLine(page, centerX1 + 1, bleed - 10, bleed),
        MidLine(page, centerX1 + 1, finalHeight - bleed - 10, finalHeight - bleed) >>

----------------------------------------------------------------------------
(* createSpreadPage.js *)

\* A faulty variant: the right content is moved right by extraGutter
PlacementsWithGutter(page, a) ==
  (IF a.leftPage # Absent
     THEN << DrawPage(page, a.leftPage, a.marginX, a.marginY,
                      a.imgWidth, a.imgHeight) >>
     ELSE << >>)
  \o
  (IF a.rightPage # Absent
     THEN << DrawPage(page, a.rightPage,
                      a.marginX + a.imgWidth + OrDefault(a.extraGutter, 0),
                      a.marginY, a.imgWidth, a.imgHeight) >>
     ELSE << >>)

\* A faulty variant: the right block nested in the left one
PlacementsNested(page, a) ==
  IF a.leftPage # Absent
    THEN << DrawPage(page, a.leftPage, a.marginX, a.marginY,
                     a.imgWidth, a.imgHeight) >>
         \o (IF a.rightPage # Absent
               THEN << DrawPage(page, a.rightPage, a.marginX + a.imgWidth,
                                a.marginY, a.imgWidth, a.imgHeight) >>
               ELSE << >>)
    ELSE << >>

\* A faulty variant: content is placed only when both halves fit on the page
PlacementsIfFits(page, a) ==
  IF a.imgWidth > 0 /\ a.marginX + 2 * a.imgWidth <= a.width
    THEN (IF a.leftPage # Absent
            THEN << DrawPage(page, a.leftPage, a.marginX, a.marginY,
                             a.imgWidth, a.imgHeight) >>
            ELSE << >>)
         \o
         (IF a.rightPage # Absent
            THEN << DrawPage(page, a.rightPage, a.marginX + a.imgWidth,
                             a.marginY, a.imgWidth, a.imgHeight) >>
            ELSE << >>)
    ELSE << >>

\* the two `if (leftPage)` / `if (rightPage)` blocks
Placements(page, a) ==
  (IF a.leftPage # Absent
     THEN << DrawPage(page, a.leftPage, a.marginX, a.marginY,
                      a.imgWidth, a.imgHeight) >>
     ELSE << >>)
  \o
  (IF a.rightPage # Absent
     THEN << DrawPage(page, a.rightPage, a.marginX + a.imgWidth, a.marginY,
                      a.imgWidth, a.imgHeight) >>
     ELSE << >>)

\* the options object createSpreadPage hands to drawMiddleMarks
MiddleArgs(a) ==
  [imgWidth |-> a.imgWidth, bleed |-> a.bleed, finalHeight |-> a.height,
   extraGutter |-> Some(OrDefault(a.extraGutter, 0)),
   offset1 |-> Undefined, offset2 |-> Undefined]

\* A faulty variant: the marks are drawn before the content is placed
SpreadCallsMarksFirst(page, a) ==
  << AddPage(page, a.width, a.height) >>
  \o drawCutMarks(page, a.width, a.height, a.bleed)
  \o drawMiddleMarks(page, MiddleArgs(a))
  \o Placements(page, a)

\* A faulty variant: the margin creeps with the number of pages already composed
SpreadCallsCreep(page, a) ==
  << AddPage(page, a.width, a.height) >>
  \o Placements(page, [a EXCEPT !.marginX = a.marginX + page])
  \o drawCutMarks(page, a.width, a.height, a.bleed)
  \o drawMiddleMarks(page, MiddleArgs(a))

\* The primitive calls of one createSpreadPage, in program order; `page` is
\* the page addPage returns.
SpreadCalls(page, a) ==
  << AddPage(page, a.width, a.height) >>
  \o Placements(page, a)
  \o drawCutMarks(page, a.width, a.height, a.bleed)
  \o drawMiddleMarks(page, MiddleArgs(a))

\* A faulty variant: a failing call is caught and the remaining calls go on
ExecuteSwallow(calls, failAt, err) ==
  [trace |-> calls, completed |-> TRUE, thrown |-> "none"]

\* Running a sequence of primitive calls of which call number failAt (0: none)
\* throws err: nothing catches, so the calls after it are never issued and
\* the exception is what the caller gets.
Execute(calls, failAt, err) ==
  IF failAt = 0
    THEN [trace |-> calls, completed |-> TRUE, thrown |-> "none"]
    ELSE [trace |-> SubSeq(calls, 1, failAt - 1), completed |-> FALSE,
          thrown |-> err]

NoCall == [args |-> "none"]

\* no request received yet
HttpIdle ==
  /\ req = [link |-> "none", row |-> "none"]
  /\ pc = "idle"
  /\ steps = << >>
  /\ responses = << >>

createSpreadPage(a, failAt, err) ==
  LET page == pageCount + 1
      run == Execute(SpreadCalls(page, a), failAt, err)
  IN /\ pageCount' = IF Len(run.trace) >= 1 THEN pageCount + 1 ELSE pageCount
     /\ last' = [args |-> a, before |-> pageCount, fault |-> <<failAt, err>>,
                 trace |-> run.trace,
                 returned |-> IF run.completed THEN page ELSE 0,
                 thrown |-> run.thrown]

\* The environment's part of a call: which primitive call throws (0: none)
\* and what it throws.
Faults(a) ==
  {<<0, "none">>} \cup ((1 .. Len(SpreadCalls(0, a))) \X Errors)

Compose ==
  \E f \in Faults(args) :
    /\ pageCount < MaxPages
    /\ createSpreadPage(args, f[1], f[2])
    /\ UNCHANGED <<args, snap, sheet, httpVars>>

Init ==
  /\ args \in Inputs
  /\ pageCount = 0
  /\ last = NoCall
  /\ snap = NoCall
  /\ sheet = NoCall
  /\ HttpIdle

Next == Compose

Spec == Init /\ [][Next]_vars

----------------------------------------------------------------------------
(* Repeated compositions: the same options composed again, with calls for    *)
(* other options in between; snap keeps the first completed call for args.  *)

Remember ==
  snap' = IF snap = NoCall /\ last'.returned # 0 /\ last'.args = args
            THEN last' ELSE snap

ComposeSame ==
  \E f \in Faults(args) :
    /\ pageCount < MaxRepeatPages
    /\ createSpreadPage(args, f[1], f[2])
    /\ Remember
    /\ UNCHANGED <<args, sheet, httpVars>>

ComposeOther ==
  \E f \in Faults(Other(args)) :
    /\ pageCount < MaxRepeatPages
    /\ createSpreadPage(Other(args), f[1], f[2])
    /\ Remember
    /\ UNCHANGED <<args, sheet, httpVars>>

InitRepeat ==
  /\ args \in RepeatInputs
  /\ pageCount = 0
  /\ last = NoCall
  /\ snap = NoCall
  /\ sheet = NoCall
  /\ HttpIdle

NextRepeat == ComposeSame \/ ComposeOther

SpecRepeat == InitRepeat /\ [][NextRepeat]_vars

----------------------------------------------------------------------------
(* The two renderers called on their own, once, on page 1 of a document.     *)

MarkFaults(n) == {<<0, "none">>} \cup ((1 .. n) \X Errors)

Rendered(fn, in, calls, f) ==
  LET run == Execute(calls, f[1], f[2])
  IN [fn |-> fn, in |-> in, fault |-> f, trace |-> run.trace,
      completed |-> run.completed, thrown |-> run.thrown]

CutMarks ==
  \E width \in Widths, height \in Heights, bleed \in Bleeds :
    \E f \in MarkFaults(8) :
      /\ sheet = NoCall
      /\ sheet' = Rendered("drawCutMarks",
                            [width |-> width, height |-> height, bleed |-> bleed],
                            drawCutMarks(1, width, height, bleed), f)
      /\ UNCHANGED <<args, pageCount, last, snap, httpVars>>

MiddleMarks ==
  \E options \in MiddleOptions :
    \E f \in MarkFaults(2) :
      /\ sheet = NoCall
      /\ sheet' = Rendered("drawMiddleMarks", options,
                            drawMiddleMarks(1, options), f)
      /\ UNCHANGED <<args, pageCount, last, snap, httpVars>>

InitMarks ==
  /\ args = Scenario
  /\ pageCount = 1
  /\ last = NoCall
  /\ snap = NoCall
  /\ sheet = NoCall
  /\ HttpIdle

NextMarks == CutMarks \/ MiddleMarks

SpecMarks == InitMarks /\ [][NextMarks]_vars

----------------------------------------------------------------------------
(* The server: POST /handle-preview (one request) and authenticate()        *)

MaxLinkLen == 4

\* JSON values of the request body: undefined (missing), a number, or a
\* string, kept as its sequence of characters.
Missing == [t |-> "undefined"]
Num(n) == [t |-> "number", n |-> n]
Str(chars) == [t |-> "string", s |-> chars]

\* JavaScript truthiness: `!link`
Truthy(v) ==
  CASE v.t = "undefined" -> FALSE
    [] v.t = "number" -> v.n # 0
    [] v.t = "string" -> v.s # << >>

LinkChars == {"/", "d", "x", "?"}
\* the characters [a-zA-Z0-9_-] among LinkChars
IdChars == {"d", "x"}

Links ==
  {Missing, Num(0), Num(123)}
    \cup {Str(c) : c \in UNION {[1 .. n -> LinkChars] : n \in 0 .. MaxLinkLen}}

Rows ==
  {Missing, Num(5), Str(<< >>), Str(<<"7">>), Str(<<"1", "2">>),
   Str(<<"1", "2", "a">>), Str(<<"a", "1">>), Str(<<" ", "4">>),
   Str(<<"-", "3">>), Str(<<"-">>)}

NaN == << >>
DigitValue ==
  [c \in {"0", "1", "2", "3", "4", "5", "6", "7", "8", "9"} |->
     CASE c = "0" -> 0 [] c = "1" -> 1 [] c = "2" -> 2 [] c = "3" -> 3
       [] c = "4" -> 4 [] c = "5" -> 5 [] c = "6" -> 6 [] c = "7" -> 7
       [] c = "8" -> 8 [] c = "9" -> 9]

RECURSIVE SkipSpaces(_)
SkipSpaces(s) ==
  IF s # << >> /\ Head(s) = " " THEN SkipSpaces(Tail(s)) ELSE s

\* the value of the longest run of digits s starts with, after acc; <<>> when
\* s starts with no digit and none was read
RECURSIVE ReadDigits(_, _, _)
ReadDigits(s, acc, any) ==
  IF s # << >> /\ Head(s) \in DOMAIN DigitValue
    THEN ReadDigits(Tail(s), 10 * acc + DigitValue[Head(s)], TRUE)
    ELSE IF any THEN <<acc>> ELSE NaN

\* parseInt(v, 10): NaN (<<>>) or <<n>>
parseInt(v) ==
  CASE v.t = "undefined" -> NaN
    [] v.t = "number" -> <<v.n>>
    [] v.t = "string" ->
         LET t == SkipSpaces(v.s)
             neg == t # << >> /\ Head(t) = "-"
             u == IF t # << >> /\ Head(t) \in {"-", "+"} THEN Tail(t) ELSE t
             r == ReadDigits(u, 0, FALSE)
         IN IF r = NaN THEN NaN ELSE IF neg THEN <<0 - r[1]>> ELSE r

\* the longest run of id characters s starts with
RECURSIVE IdRun(_)
IdRun(s) ==
  IF s # << >> /\ Head(s) \in IdChars THEN <<Head(s)>> \o IdRun(Tail(s)) ELSE << >>

\* link.match(/\/d\/([a-zA-Z0-9_-]+)/): the capture of the leftmost match, or
\* null (<<>>); link is a string's characters
extractFileId(s) ==
  LET starts == {i \in 1 .. Len(s) - 3 :
                   /\ s[i] = "/" /\ s[i + 1] = "d" /\ s[i + 2] = "/"
                   /\ s[i + 3] \in IdChars}
  IN IF starts = {} THEN << >>
     ELSE LET i == CHOOSE k \in starts : \A m \in starts : k <= m
          IN IdRun(SubSeq(s, i + 3, Len(s)))

\* googleAuth.js authenticate(): what its environment can be, and whether it
\* returns the client or throws (every failure is logged and thrown again)
AuthEnvs == {"noEnvVar", "badJson", "getClientFails", "getTokenFails", "ok"}
authenticate(env) ==
  CASE env = "noEnvVar" -> "throws"
    [] env = "badJson" -> "throws"
    [] env = "getClientFails" -> "throws"
    [] env = "getTokenFails" -> "throws"
    [] env = "ok" -> "client"

\* the awaited steps of the handler's try block, in program order
Stages ==
  << "authenticate", "getFileName", "download", "generateSpreadPdf",
     "upload", "makePublic" >>

Respond(status, by, body) == [status |-> status, by |-> by, body |-> body]

\* The handler up to its first await.  A link that is truthy and no string
\* has no match method: the TypeError is thrown before the try block, so the
\* handler's promise rejects; the framework then either drops the rejection
\* (no response is ever sent) or hands it to its error handler (a 500).
Receive ==
  \E link \in Links, row \in Rows :
    /\ pc = "idle"
    /\ req' = [link |-> link, row |-> row]
    /\ IF ~Truthy(link) \/ parseInt(row) = NaN
         THEN /\ responses' = << Respond(400, "handler",
                                  "Missing or invalid preview link or row number.") >>
              /\ pc' = "done"
              /\ steps' = steps
         ELSE IF link.t # "string"
           THEN /\ \E handled \in BOOLEAN :
                     responses' = IF handled
                                    THEN << Respond(500, "framework", "TypeError") >>
                                    ELSE << >>
                /\ pc' = "rejected"
                /\ steps' = steps
           ELSE IF extractFileId(link.s) = << >>
             THEN /\ responses' = << Respond(400, "handler",
                                      "Invalid Google Drive link format.") >>
                  /\ pc' = "done"
                  /\ steps' = steps
             ELSE /\ responses' = responses
                  /\ pc' = Stages[1]
                  /\ steps' = << [step |-> Stages[1], ok |-> "pending"] >>
    /\ UNCHANGED pdfVars

\* An awaited step settles.  Fulfilled: the handler starts the next step, or
\* after the last one sends the public link and the row.  Rejected: the catch
\* block answers 500.
Settle ==
  \E i \in 1 .. Len(Stages), env \in AuthEnvs, fulfils \in BOOLEAN :
    /\ pc = Stages[i]
    /\ (i = 1 => fulfils = (authenticate(env) = "client"))
    /\ (i # 1 => env = "ok")
    /\ LET settled ==
             [steps EXCEPT ![i].ok = IF fulfils THEN "fulfilled" ELSE "rejected"]
       IN IF ~fulfils
            THEN /\ steps' = settled
                 /\ responses' = Append(responses,
                      Respond(500, "handler", "Failed to process and upload PDF."))
                 /\ pc' = "done"
            ELSE IF i < Len(Stages)
              THEN /\ steps' = Append(settled, [step |-> Stages[i + 1], ok |-> "pending"])
                   /\ responses' = responses
                   /\ pc' = Stages[i + 1]
              ELSE /\ steps' = settled
                   /\ responses' = Append(responses,
                        Respond(200, "handler",
                                [link |-> "publicUrl", row |-> parseInt(req.row)[1]]))
                   /\ pc' = "done"
    /\ UNCHANGED <<req, pdfVars>>

InitHttp ==
  /\ args = Scenario
  /\ pageCount = 0
  /\ last = NoCall
  /\ snap = NoCall
  /\ sheet = NoCall
  /\ HttpIdle

NextHttp == Receive \/ Settle

SpecHttp == InitHttp /\ [][NextHttp]_vars

----------------------------------------------------------------------------
(* What a call left behind, as the properties below read it *)

ImagesOf(t) == SelectSeq(t, LAMBDA c : c.op = "drawPage")
LinesOf(t) == SelectSeq(t, LAMBDA c : c.op = "drawLine")
PagesOf(t) == SelectSeq(t, LAMBDA c : c.op = "addPage")

\* a black segment of stroke width 1 on page p
Seg(p, x1, y1, x2, y2) ==
  [op |-> "drawLine", page |-> p, start |-> <<x1, y1>>, end |-> <<x2, y2>>,
   thickness |-> 1, color |-> <<0, 0, 0>>]

\* the offset table of the specification's section 4.2
CutTable(p, w, h, b) ==
  << Seg(p, b - 10, b + 7, b, b + 7),
     Seg(p, b + 7, b - 10, b + 7, b),
     Seg(p, w - b, b + 7, w - b + 10, b + 7),
     Seg(p, w - b - 7, b - 10, w - b - 7, b),
     Seg(p, b - 10, h - b - 16, b + 1, h - b - 16),
     Seg(p, b + 7, h - b - 10, b + 7, h - b),
     Seg(p, w - b - 2, h - b - 16, w - b + 9, h - b - 16),
     Seg(p, w - b - 8, h - b - 9, w - b - 8, h - b + 1) >>

\* the two gutter ticks at x
GutterTicks(p, x, h, b) ==
  << Seg(p, x, b - 10, x, b), Seg(p, x, h - b - 10, x, h - b) >>

Sides(a) ==
  (IF a.leftPage # Absent THEN 1 ELSE 0) + (IF a.rightPage # Absent THEN 1 ELSE 0)

Min(x, y) == IF x < y THEN x ELSE y
Max(x, y) == IF x < y THEN y ELSE x

\* the interiors of two placements' horizontal extents meet
OverlapX(l, r) ==
  Max(Min(l.x, l.x + l.width), Min(r.x, r.x + r.width))
    < Min(Max(l.x, l.x + l.width), Max(r.x, r.x + r.width))

Succeeded == last # NoCall /\ last.fault[1] = 0

----------------------------------------------------------------------------
(* C1: a createSpreadPage call whose page primitives all succeed adds       *)
(* exactly one page to the document, of size (width, height), draws exactly *)
(* 10 line segments and at most 2 image placements on that page, and        *)
(* returns the page addPage returned.                                       *)
C1_OnePageTenLines ==
  Succeeded =>
    /\ last.thrown = "none"
    /\ pageCount = last.before + 1
    /\ Len(PagesOf(last.trace)) = 1
    /\ last.trace[1].op = "addPage"
    /\ last.trace[1].size = <<last.args.width, last.args.height>>
    /\ last.returned = last.trace[1].page
    /\ Len(LinesOf(last.trace)) = 10
    /\ Len(ImagesOf(last.trace)) <= 2
    /\ \A i \in 1 .. Len(last.trace) : last.trace[i].page = last.returned

\* the scenario of section 8, composed as the second page of a document
C1_Witness ==
  /\ Succeeded
  /\ last.args = Scenario
  /\ last.before = 1
  /\ last.returned = 2
  /\ last.trace[1].size = <<1224, 792>>
  /\ ImagesOf(last.trace)[1].x = 36
  /\ ImagesOf(last.trace)[2].x = 612
  /\ LinesOf(last.trace)[9].start[1] = 594
  /\ LinesOf(last.trace)[10].start[1] = 594

(* C2: for bleed >= 0, width > 2*bleed and height > 2*bleed, drawCutMarks   *)
(* issues exactly the 8 drawLine calls of the offset table, in thickness 1  *)
(* and black.                                                               *)
C2_CutMarksMatchTable ==
  (/\ sheet # NoCall
   /\ sheet.fn = "drawCutMarks"
   /\ sheet.fault[1] = 0
   /\ sheet.in.bleed >= 0
   /\ sheet.in.width > 2 * sheet.in.bleed
   /\ sheet.in.height > 2 * sheet.in.bleed)
  => sheet.trace = CutTable(1, sheet.in.width, sheet.in.height, sheet.in.bleed)

C2_Witness ==
  /\ sheet # NoCall
  /\ sheet.fn = "drawCutMarks"
  /\ sheet.fault[1] = 0
  /\ sheet.in = [width |-> 1224, height |-> 792, bleed |-> 18]
  /\ Len(sheet.trace) = 8
  /\ sheet.trace[5] = Seg(1, 8, 758, 19, 758)
  /\ sheet.trace[8] = Seg(1, 1198, 765, 1198, 775)

(* C3: drawMiddleMarks issues exactly 2 drawLine calls, both vertical at    *)
(* x = imgWidth + bleed + offset1 + 1 (offset1 defaulting to -1), from      *)
(* bleed-10 to bleed and from finalHeight-bleed-10 to finalHeight-bleed,    *)
(* whatever extraGutter and offset2 are.                                    *)
C3_MiddleMarksAtCenterX1 ==
  (sheet # NoCall /\ sheet.fn = "drawMiddleMarks" /\ sheet.fault[1] = 0) =>
    LET o == sheet.in
        offset1 == IF o.offset1 = Undefined THEN -1 ELSE o.offset1[1]
        x == o.imgWidth + o.bleed + offset1 + 1
    IN sheet.trace = GutterTicks(1, x, o.finalHeight, o.bleed)

\* extraGutter and offset2 both given, offset1 left to its default
C3_Witness ==
  /\ sheet # NoCall
  /\ sheet.fn = "drawMiddleMarks"
  /\ sheet.fault[1] = 0
  /\ sheet.in = [imgWidth |-> 576, bleed |-> 18, finalHeight |-> 792,
                 extraGutter |-> Some(5), offset1 |-> Undefined,
                 offset2 |-> Some(7)]
  /\ sheet.trace = << Seg(1, 594, 8, 594, 18), Seg(1, 594, 764, 594, 774) >>

(* C4: with both leftPage and rightPage present, the left content is placed *)
(* at (marginX, marginY, imgWidth, imgHeight) and the right content at      *)
(* (marginX + imgWidth, marginY, imgWidth, imgHeight); the two rectangles   *)
(* share the edge x = marginX + imgWidth and do not overlap.                *)
C4_BothSidesAbut ==
  (Succeeded /\ last.args.leftPage # Absent /\ last.args.rightPage # Absent) =>
    LET a == last.args
        imgs == ImagesOf(last.trace)
    IN /\ Len(imgs) = 2
       /\ imgs[1] = [op |-> "drawPage", page |-> last.returned, ref |-> a.leftPage,
                     x |-> a.marginX, y |-> a.marginY,
                     width |-> a.imgWidth, height |-> a.imgHeight]
       /\ imgs[2] = [op |-> "drawPage", page |-> last.returned, ref |-> a.rightPage,
                     x |-> a.marginX + a.imgWidth, y |-> a.marginY,
                     width |-> a.imgWidth, height |-> a.imgHeight]
       /\ imgs[1].x + imgs[1].width = imgs[2].x
       /\ ~OverlapX(imgs[1], imgs[2])

C4_Witness ==
  /\ Succeeded
  /\ last.args.leftPage = "embeddedA"
  /\ last.args.rightPage = "embeddedB"
  /\ last.args.imgWidth = 576
  /\ last.args.marginX = 36
  /\ last.args.extraGutter = Some(5)
  /\ ImagesOf(last.trace)[1].x = 36
  /\ ImagesOf(last.trace)[2].x = 612

(* C5: a side's content is placed if and only if that side's page reference *)
(* is present; the right content is placed at x = marginX + imgWidth also   *)
(* when the left is absent; with neither present nothing is placed and the  *)
(* 10 marks are still drawn.                                                *)
C5_PlacementIffPresent ==
  Succeeded =>
    LET a == last.args
        imgs == ImagesOf(last.trace)
    IN /\ Len(imgs) = Sides(a)
       /\ (a.leftPage # Absent) <=> (\E i \in 1 .. Len(imgs) : imgs[i].ref = a.leftPage)
       /\ (a.rightPage # Absent) <=> (\E i \in 1 .. Len(imgs) : imgs[i].ref = a.rightPage)
       /\ \A i \in 1 .. Len(imgs) :
            imgs[i].x = IF imgs[i].ref = a.leftPage THEN a.marginX
                                                    ELSE a.marginX + a.imgWidth
       /\ Len(LinesOf(last.trace)) = 10

\* only the right side present
C5_Witness ==
  /\ Succeeded
  /\ last.args.leftPage = Absent
  /\ last.args.rightPage = "embeddedB"
  /\ last.args.imgWidth = 576
  /\ last.args.marginX = 36
  /\ Len(ImagesOf(last.trace)) = 1
  /\ ImagesOf(last.trace)[1].ref = "embeddedB"
  /\ ImagesOf(last.trace)[1].x = 612

(* C6: in every call the operations occur in the order addPage, left        *)
(* placement, right placement, the 8 cut-mark segments, the 2 gutter        *)
(* segments, and only then is the page returned: no placement after a line  *)
(* segment, no gutter segment before a cut-mark segment.                    *)
Rank(c, a) ==
  CASE c.op = "addPage" -> 0
    [] c.op = "drawPage" -> (IF c.ref = a.leftPage THEN 1 ELSE 2)
    [] c.op = "drawLine" -> 3

C6_OperationOrder ==
  last # NoCall =>
    LET a == last.args
        t == last.trace
        lines == LinesOf(t)
        cut == CutTable(t[1].page, a.width, a.height, a.bleed)
        gutter == GutterTicks(t[1].page, a.imgWidth + a.bleed, a.height, a.bleed)
    IN /\ t # << >> => t[1].op = "addPage"
       /\ \A i, j \in 1 .. Len(t) : i < j => Rank(t[i], a) < Rank(t[j], a)
                                             \/ (Rank(t[i], a) = 3 /\ Rank(t[j], a) = 3)
       /\ \A i \in 1 .. Len(lines) :
            lines[i] = IF i <= 8 THEN cut[i] ELSE gutter[i - 8]
       /\ last.returned # 0 => Len(t) = 1 + Sides(a) + 10

C6_Witness ==
  /\ Succeeded
  /\ last.returned # 0
  /\ Len(last.trace) = 13
  /\ last.trace[2].op = "drawPage" /\ last.trace[2].ref = "embeddedA"
  /\ last.trace[3].op = "drawPage" /\ last.trace[3].ref = "embeddedB"
  /\ last.trace[4].op = "drawLine"
  /\ last.trace[12].start[1] = last.args.imgWidth + last.args.bleed
  /\ last.trace[11].start[1] = last.args.width - last.args.bleed - 8

(* C7: two createSpreadPage calls with identical options, each on a fresh   *)
(* page, issue the identical sequence of draw calls, whatever was called    *)
(* before or in between.                                                    *)
OnAnyPage(t) == [i \in 1 .. Len(t) |-> [t[i] EXCEPT !.page = 0]]

C7_SameInputsSameDraws ==
  (/\ snap # NoCall
   /\ last # NoCall
   /\ last.fault[1] = 0
   /\ last.args = snap.args)
  => /\ OnAnyPage(last.trace) = OnAnyPage(snap.trace)
     /\ (last.returned = snap.returned \/ last.returned > snap.returned)

\* the same options composed again after a call with other options added a page
C7_Witness ==
  /\ snap # NoCall
  /\ last # NoCall
  /\ last.fault[1] = 0
  /\ last.args = snap.args
  /\ last.before > snap.returned
  /\ last.returned = 3
  /\ last.args.bleed = 18

(* C8: if a page primitive fails during createSpreadPage, that failure      *)
(* reaches the caller unchanged, no page is returned and no later draw call *)
(* is issued; a failing addPage leaves the document with no new page and    *)
(* no draw call made.                                                       *)
C8_FailurePropagates ==
  (last # NoCall /\ last.fault[1] # 0) =>
    /\ last.thrown = last.fault[2]
    /\ last.returned = 0
    /\ Len(last.trace) = last.fault[1] - 1
    /\ last.fault[1] = 1 => (last.trace = << >> /\ pageCount = last.before)
    /\ last.fault[1] > 1 => pageCount = last.before + 1

\* the sixth primitive call, a drawLine, throws a RangeError
C8_Witness ==
  /\ last # NoCall
  /\ last.fault = <<6, "RangeError">>
  /\ last.thrown = "RangeError"
  /\ last.returned = 0
  /\ Len(last.trace) = 5
  /\ last.trace[5].op = "drawLine"

(* C9: createSpreadPage never validates geometry: for every options object, *)
(* also with zero or negative sizes and marginX + 2*imgWidth > width, when  *)
(* no primitive refuses its arguments the composition completes with the    *)
(* calls valid geometry gets: addPage with width and height unchanged, a    *)
(* placement for each present side, and all 10 segments.                    *)
Kinds(t) == [i \in 1 .. Len(t) |-> t[i].op]

C9_NoGeometryValidation ==
  Succeeded =>
    LET a == last.args
    IN /\ last.returned # 0
       /\ last.thrown = "none"
       /\ last.trace[1].size = <<a.width, a.height>>
       /\ Kinds(last.trace) =
            << "addPage" >>
            \o [i \in 1 .. Sides(a) |-> "drawPage"]
            \o [i \in 1 .. 10 |-> "drawLine"]

\* zero width, negative height, image width and bleed, content wider than the page
C9_Witness ==
  /\ Succeeded
  /\ last.args.width = 0
  /\ last.args.height < 0
  /\ last.args.imgWidth < 0
  /\ last.args.bleed < 0
  /\ last.args.marginX + 2 * last.args.imgWidth > last.args.width
  /\ last.args.leftPage # Absent
  /\ last.args.rightPage # Absent
  /\ last.returned # 0
  /\ Len(last.trace) = 13

(* C10: every POST /handle-preview request gets exactly one response; a     *)
(* missing link, a non-numeric row or a link without a /d/<id> part is      *)
(* answered 400 before authentication or any Drive or download call;        *)
(* otherwise the steps run in the fixed order, the success response with    *)
(* the public link and the row is sent only after the make-public step      *)
(* succeeded, and a failing step yields a 500 with no later step started.   *)
HasDrivePart(link) ==
  /\ link.t = "string"
  /\ \E i \in 1 .. Len(link.s) - 3 :
       /\ SubSeq(link.s, i, i + 2) = <<"/", "d", "/">>
       /\ link.s[i + 3] \in IdChars

BadRequest(r) ==
  \/ ~Truthy(r.link)
  \/ parseInt(r.row) = NaN
  \/ ~HasDrivePart(r.link)

C10_OneResponseFixedOrder ==
  pc \in {"done", "rejected"} =>
    /\ Len(responses) = 1
    /\ \A i \in 1 .. Len(steps) : steps[i].step = Stages[i]
    /\ \A i \in 1 .. Len(steps) - 1 : steps[i].ok = "fulfilled"
    /\ BadRequest(req) => (responses[1].status = 400 /\ steps = << >>)
    /\ ~BadRequest(req) =>
         /\ steps # << >>
         /\ responses[1].status \in {200, 500}
         /\ responses[1].status = 200 <=>
              (Len(steps) = Len(Stages) /\ steps[Len(steps)].ok = "fulfilled")
         /\ responses[1].status = 500 <=> steps[Len(steps)].ok = "rejected"
         /\ responses[1].status = 200 =>
              responses[1].body = [link |-> "publicUrl", row |-> parseInt(req.row)[1]]

====
